---- MODULE Spec2Model ----
(***************************************************************************)
(* make_vendor_list.py: the spreadsheet parser (parse_spreadsheet), the    *)
(* code generator (generate_vendor_module) and the driver (main).          *)
(*                                                                         *)
(* A Python str is a sequence of one-character strings; a line of the      *)
(* generated module is such a sequence, and so is the text of a cell.      *)
(***************************************************************************)
EXTENDS Integers, Sequences, FiniteSets, TLC

VARIABLES
    rows,       \* root.findall('.//body/table/tbody/tr'): each row is its list of td cells
    readable,   \* whether ElementTree can read and parse the spreadsheet file
    gstate,     \* parse_spreadsheet generator: "created", "suspended", "raised", "done"
    gpos,       \* index of the row the generator last stopped at
    yielded,    \* the records the generator has yielded so far, in order
    gexc,       \* the exception the generator raised, or NoExc
    kind,       \* what generate_vendor_module is handed: "list" or "generator"
    vlist,      \* the stored list of records (kind = "list")
    outs,       \* results of the calls of generate_vendor_module, in call order
    pc,         \* position of main
    run,        \* number of the current run of the driver
    argOK,      \* whether the command line carries the positional argument
    file,       \* content of bios_pnp/vendors.py, a str
    prior,      \* content of the output file when the current run started
    handle,     \* wfile: "none", "open", "closed"
    opens,      \* number of open() calls of the current run
    writes,     \* number of wfile.write() calls of the current run
    output,     \* the local variable output of main
    exc,        \* the exception propagating out of main, or NoExc
    status,     \* exit status of the process, -1 while it runs
    afterFail   \* statements of main executed after a failure was raised

vars == <<rows, readable, gstate, gpos, yielded, gexc, kind, vlist, outs, pc,
          run, argOK, file, prior, handle, opens, writes, output, exc, status,
          afterFail>>

parserVars == <<rows, readable, gstate, gpos, yielded, gexc>>
generatorVars == <<kind, vlist, outs>>
driverVars == <<pc, run, argOK, file, prior, handle, opens, writes, output,
                exc, status, afterFail>>

----------------------------------------------------------------------------
(* Bounds *)

MaxRows ==
    2
MaxVendors ==
    2
MaxCalls ==
    2
MaxRuns ==
    2
MaxDriverRows ==
    2

----------------------------------------------------------------------------
(* Strings *)

NoExc == "none"

\* F(x), with x evaluated once.
Apply(F(_), x) ==
    CHOOSE y \in {F(v) : v \in {x}} : TRUE

Whitespace == {" ", "\n", "\t"}

Digits == {"0", "1", "2", "3", "4", "5", "6", "7", "8", "9"}

DigitVal(c) ==
    CASE c = "0" -> 0 [] c = "1" -> 1 [] c = "2" -> 2 [] c = "3" -> 3
      [] c = "4" -> 4 [] c = "5" -> 5 [] c = "6" -> 6 [] c = "7" -> 7
      [] c = "8" -> 8 [] c = "9" -> 9

DigitChar(d) ==
    CASE d = 0 -> "0" [] d = 1 -> "1" [] d = 2 -> "2" [] d = 3 -> "3"
      [] d = 4 -> "4" [] d = 5 -> "5" [] d = 6 -> "6" [] d = 7 -> "7"
      [] d = 8 -> "8" [] d = 9 -> "9"

\* The characters of the model that lie outside ASCII.
NonAscii == {"©"}

RECURSIVE lstrip(_)
lstrip(s) ==
    IF s # <<>> /\ Head(s) \in Whitespace THEN lstrip(Tail(s)) ELSE s

RECURSIVE rstrip(_)
rstrip(s) ==
    IF s # <<>> /\ s[Len(s)] \in Whitespace
    THEN rstrip(SubSeq(s, 1, Len(s) - 1))
    ELSE s

strip(s) ==
    rstrip(lstrip(s))

AllDigits(s) ==
    \A i \in 1..Len(s) : s[i] \in Digits

\* The number the first k digits of s denote.
RECURSIVE IntOfPrefix(_, _)
IntOfPrefix(s, k) ==
    IF k = 0 THEN 0 ELSE 10 * IntOfPrefix(s, k - 1) + DigitVal(s[k])

int(s) ==
    IntOfPrefix(s, Len(s))

RECURSIVE str(_)
str(n) ==
    IF n < 10 THEN <<DigitChar(n)>>
    ELSE Append(str(n \div 10), DigitChar(n % 10))

\* The pieces of s between the occurrences of sep.
split(s, sep) ==
    LET Pieces(at) ==
            LET cut(k) ==
                    IF k = 0 THEN 0
                    ELSE IF k > Cardinality(at) THEN Len(s) + 1
                    ELSE CHOOSE i \in at :
                             Cardinality({j \in at : j < i}) = k - 1
            IN  [k \in 1..(Cardinality(at) + 1) |->
                    SubSeq(s, cut(k - 1) + 1, cut(k) - 1)]
    IN  Apply(Pieces, {i \in 1..Len(s) : s[i] = sep})

----------------------------------------------------------------------------
(* datetime.datetime.strptime(raw_date, '%m/%d/%Y').date() *)

IsLeap(y) ==
    (y % 4 = 0 /\ y % 100 # 0) \/ y % 400 = 0

DaysInMonth(y, m) ==
    IF m = 2 THEN (IF IsLeap(y) THEN 29 ELSE 28)
    ELSE IF m \in {4, 6, 9, 11} THEN 30 ELSE 31

\* %m: 1[0-2]|0[1-9]|[1-9]
MatchesMonth(f) ==
    Len(f) \in {1, 2} /\ AllDigits(f) /\ int(f) \in 1..12

\* %d: 3[0-1]|[1-2]\d|0[1-9]|[1-9]| [1-9]
MatchesDay(f) ==
    \/ Len(f) \in {1, 2} /\ AllDigits(f) /\ int(f) \in 1..31
    \/ Len(f) = 2 /\ f[1] = " " /\ f[2] \in Digits \ {"0"}

\* %Y: \d\d\d\d
MatchesYear(f) ==
    Len(f) = 4 /\ AllDigits(f)

NoDate == [year |-> 0, month |-> 0, day |-> 0]

\* The date of the fields month, day, year when the day exists, else NoDate.
DateOfFields(mm, dd, yyyy) ==
    LET Checked(y) ==
            IF y >= 1 /\ int(lstrip(dd)) <= DaysInMonth(y, int(mm))
            THEN [year |-> y, month |-> int(mm), day |-> int(lstrip(dd))]
            ELSE NoDate
    IN  Apply(Checked, int(yyyy))

\* strptime with the format '%d/%m/%Y'.
strptime_DayFirst(s) ==
    LET Parsed(f) ==
            IF Len(f) = 3 /\ MatchesDay(f[1]) /\ MatchesMonth(f[2])
               /\ MatchesYear(f[3])
            THEN DateOfFields(f[2], f[1], f[3])
            ELSE NoDate
    IN  Apply(Parsed, split(s, "/"))

\* strptime without the check that the day exists in the month.
strptime_NoCalendar(s) ==
    LET Parsed(f) ==
            IF Len(f) = 3 /\ MatchesMonth(f[1]) /\ MatchesDay(f[2])
               /\ MatchesYear(f[3])
            THEN [year |-> int(f[3]), month |-> int(f[1]),
                  day |-> int(lstrip(f[2]))]
            ELSE NoDate
    IN  Apply(Parsed, split(s, "/"))

\* The date strptime returns, or NoDate when it raises ValueError.
strptime(s) ==
    LET Parsed(f) ==
            IF Len(f) = 3 /\ MatchesMonth(f[1]) /\ MatchesDay(f[2])
               /\ MatchesYear(f[3])
            THEN DateOfFields(f[1], f[2], f[3])
            ELSE NoDate
    IN  Apply(Parsed, split(s, "/"))

----------------------------------------------------------------------------
(* parse_spreadsheet *)

\* elem.text of a td element: None, or the text before its first child.
None == [none |-> TRUE, text |-> <<>>]

Text(s) == [none |-> FALSE, text |-> s]

NoVendor == [name |-> <<>>, pnp_id |-> <<>>, approval_date |-> NoDate]

IsAscii(s) ==
    \A i \in 1..Len(s) : s[i] \notin NonAscii

\* The length check written as len(...) > 3.
CheckPnpId_TooLongOnly(pnp_id) ==
    IF ~IsAscii(pnp_id) THEN "UnicodeEncodeError"
    ELSE IF Len(pnp_id) > 3 THEN "ValueError: PNP ID"
    ELSE NoExc

\* len(pnp_id.encode('ascii')) != 3: the exception raised, or NoExc.
CheckPnpId(pnp_id) ==
    IF ~IsAscii(pnp_id) THEN "UnicodeEncodeError"
    ELSE IF Len(pnp_id) # 3 THEN "ValueError: PNP ID"
    ELSE NoExc

Raise(e) ==
    [kind |-> "raise", exc |-> e, vendor |-> NoVendor]

\* One iteration of the loop over rows: the row is skipped, a record is
\* yielded, or an exception is raised.
ParseRow(row) ==
    IF Len(row) # 3
    THEN [kind |-> "skip", exc |-> NoExc, vendor |-> NoVendor]
    ELSE IF \E i \in 1..3 : row[i].none
    THEN Raise("AttributeError")
    ELSE LET name == strip(row[1].text)
             pnp_id == strip(row[2].text)
             raw_date == strip(row[3].text)
             date == strptime(raw_date)
         IN  IF date = NoDate
             THEN Raise("ValueError: time data")
             ELSE IF CheckPnpId(pnp_id) # NoExc
             THEN Raise(CheckPnpId(pnp_id))
             ELSE [kind |-> "yield", exc |-> NoExc,
                   vendor |-> [name |-> name, pnp_id |-> pnp_id,
                               approval_date |-> date]]

\* The first row after row i that is not skipped, Len(rs) + 1 if none.
NextStop(rs, i) ==
    IF \E j \in (i + 1)..Len(rs) : ParseRow(rs[j]).kind # "skip"
    THEN CHOOSE j \in (i + 1)..Len(rs) :
             /\ ParseRow(rs[j]).kind # "skip"
             /\ \A k \in (i + 1)..(j - 1) : ParseRow(rs[k]).kind = "skip"
    ELSE Len(rs) + 1

\* A parser whose result can be iterated again from the first row.
Resume_Restartable(g) ==
    IF g.gstate = "created" /\ ~g.readable
    THEN [g EXCEPT !.gstate = "raised", !.gexc = "ParseError"]
    ELSE LET i == IF g.gstate \in {"done", "raised"} THEN 0 ELSE g.gpos
             j == NextStop(g.rows, i)
         IN  IF j > Len(g.rows)
             THEN [g EXCEPT !.gstate = "done", !.gpos = j]
             ELSE LET r == ParseRow(g.rows[j])
                  IN  IF r.kind = "yield"
                      THEN [g EXCEPT !.gstate = "suspended", !.gpos = j,
                                     !.yielded = Append(@, r.vendor)]
                      ELSE [g EXCEPT !.gstate = "raised", !.gpos = j,
                                     !.gexc = r.exc]

\* The state of the generator after one next() on it.
Resume(g) ==
    IF g.gstate \in {"done", "raised"}
    THEN [g EXCEPT !.gstate = "done"]
    ELSE IF g.gstate = "created" /\ ~g.readable
    THEN [g EXCEPT !.gstate = "raised", !.gexc = "ParseError"]
    ELSE LET StopAt(j) ==
                 IF j > Len(g.rows)
                 THEN [g EXCEPT !.gstate = "done", !.gpos = j]
                 ELSE LET Outcome(r) ==
                              IF r.kind = "yield"
                              THEN [g EXCEPT !.gstate = "suspended",
                                             !.gpos = j,
                                             !.yielded = Append(@, r.vendor)]
                              ELSE [g EXCEPT !.gstate = "raised", !.gpos = j,
                                             !.gexc = r.exc]
                      IN  Apply(Outcome, ParseRow(g.rows[j]))
         IN  Apply(StopAt, NextStop(g.rows, g.gpos))

\* Iterating the generator until it stops or raises.
RECURSIVE Exhaust(_)
Exhaust(g) ==
    LET Continue(h) == IF h.gstate = "suspended" THEN Exhaust(h) ELSE h
    IN  Apply(Continue, Resume(g))

Generator ==
    [rows |-> rows, readable |-> readable, gstate |-> gstate, gpos |-> gpos,
     yielded |-> yielded, gexc |-> gexc]

SetGenerator(g) ==
    /\ rows' = g.rows
    /\ readable' = g.readable
    /\ gstate' = g.gstate
    /\ gpos' = g.gpos
    /\ yielded' = g.yielded
    /\ gexc' = g.gexc

----------------------------------------------------------------------------
(* generate_vendor_module *)

LineAutogen ==
    <<"#"," ","T","H","I","S"," ","F","I","L","E"," ","W","A","S"," ","A",
      "U","T","O","G","E","N","E","R","A","T","E","D"," ","B","Y"," ","m",
      "a","k","e","_","v","e","n","d","o","r","_","l","i","s","t",".","p",
      "y","!">>
LinePylint ==
    <<"#"," ","p","y","l","i","n","t",":"," ","d","i","s","a","b","l","e",
      "=","l","i","n","e","-","t","o","o","-","l","o","n","g",",","m","i",
      "s","s","i","n","g","-","d","o","c","s","t","r","i","n","g",",","t",
      "o","o","-","m","a","n","y","-","l","i","n","e","s">>
LineYapfDisable ==
    <<"#"," ","y","a","p","f",":"," ","d","i","s","a","b","l","e">>
LineImportDatetime ==
    <<"i","m","p","o","r","t"," ","d","a","t","e","t","i","m","e">>
LineImportPnp ==
    <<"f","r","o","m"," ","b","i","o","s","_","p","n","p"," ","i","m","p",
      "o","r","t"," ","p","n","p">>
LineOpen ==
    <<"V","E","N","D","O","R","S"," ","="," ","{">>
LineClose ==
    <<"}">>
LineYapfEnable ==
    <<"#"," ","y","a","p","f",":"," ","e","n","a","b","l","e">>
LineEmpty ==
    <<>>

DateFormat ==
    <<"d","a","t","e","t","i","m","e",".","d","a","t","e","(","{","}",",",
      " ","{","}",","," ","{","}",")">>
ValueFormat ==
    <<"p","n","p",".","V","e","n","d","o","r","(","\"","{","}","\"",","," ",
      "\"","{","}","\"",","," ","{","}",")">>
LineFormat ==
    <<" "," "," "," ","\"","{","}","\"",":"," ","{","}",",">>

\* fmt.format(*args) for a format string whose only fields are '{}';
\* the arguments are already converted to str.
RECURSIVE format(_, _)
format(fmt, args) ==
    IF fmt = <<>> THEN <<>>
    ELSE IF Len(fmt) >= 2 /\ fmt[1] = "{" /\ fmt[2] = "}"
    THEN Head(args) \o format(SubSeq(fmt, 3, Len(fmt)), Tail(args))
    ELSE <<Head(fmt)>> \o format(Tail(fmt), args)

\* The date arguments passed as year, day, month.
EntryLine_DayBeforeMonth(vendor) ==
    LET date == format(DateFormat, <<str(vendor.approval_date.year),
                                     str(vendor.approval_date.day),
                                     str(vendor.approval_date.month)>>)
        key == vendor.pnp_id
        value == format(ValueFormat, <<vendor.name, vendor.pnp_id, date>>)
    IN  format(LineFormat, <<key, value>>)

\* The body of the loop over vendors: the line yielded for one vendor.
EntryLine(vendor) ==
    LET date == format(DateFormat, <<str(vendor.approval_date.year),
                                     str(vendor.approval_date.month),
                                     str(vendor.approval_date.day)>>)
        key == vendor.pnp_id
        value == format(ValueFormat, <<vendor.name, vendor.pnp_id, date>>)
    IN  format(LineFormat, <<key, value>>)

Preamble ==
    <<LineAutogen, LinePylint, LineYapfDisable, LineImportDatetime,
      LineImportPnp, LineOpen>>

Trailer ==
    <<LineClose, LineYapfEnable, LineEmpty>>

\* The lines yielded while the loop runs over the records vs.
EntryLines(vs) ==
    [i \in 1..Len(vs) |-> Apply(EntryLine, vs[i])]

\* A generator that yields one entry per distinct pnp_id.
generate_vendor_module_Dedup(vs) ==
    Preamble
        \o EntryLines(SelectSeq(vs, LAMBDA v :
               v = (CHOOSE w \in {vs[i] : i \in 1..Len(vs)} :
                        w.pnp_id = v.pnp_id)))
        \o Trailer

\* All lines of a call whose iteration over vendors ends without exception.
generate_vendor_module(vs) ==
    Preamble \o EntryLines(vs) \o Trailer

\* '\n'.join(lines)
RECURSIVE join(_)
join(lines) ==
    IF lines = <<>> THEN <<>>
    ELSE IF Len(lines) = 1 THEN lines[1]
    ELSE lines[1] \o <<"\n">> \o join(Tail(lines))

\* What iterating generate_vendor_module(parse_spreadsheet(...)) to its end
\* gives when the parser generator is in state g: the generator afterwards,
\* the lines yielded and the exception that ended the iteration, if any.
GenerateFrom(g) ==
    LET Iterated(h) ==
            LET new == SubSeq(h.yielded, Len(g.yielded) + 1, Len(h.yielded))
            IN  IF h.gstate = "raised"
                THEN [g |-> h, lines |-> Preamble \o EntryLines(new),
                      exc |-> h.gexc]
                ELSE [g |-> h, lines |-> generate_vendor_module(new),
                      exc |-> NoExc]
    IN  Apply(Iterated, Exhaust(g))

----------------------------------------------------------------------------
(* Inputs *)

SeqsUpTo(S, n) ==
    UNION {[1..k -> S] : k \in 0..n}

NameCells ==
    {None, Text(<<" ","A","c"," ">>)}

IdCells ==
    {Text(<<"A","C","M">>), Text(<<" ","B","E","T","\n">>),
     Text(<<"A","B">>), Text(<<"A","B","C","D">>), Text(<<"A","B","©">>)}

DateCells ==
    {Text(<<"0","1","/","1","5","/","2","0","1","6"," ">>),
     Text(<<"1","/","5","/","2","0","1","6">>),
     Text(<<"2","0","1","6","-","0","1","-","0","1">>),
     Text(<<"0","2","/","3","0","/","2","0","1","6">>)}

\* Rows of 1, 2 and 4 cells (header and spacer rows).
OtherRows ==
    {<<Text(<<"I","D">>)>>,
     <<None, None>>,
     <<Text(<<"A","c">>), Text(<<"A","C","M">>),
       Text(<<"0","1","/","1","5","/","2","0","1","6">>), None>>}

Rows ==
    {<<n, i, d>> : n \in NameCells, i \in IdCells, d \in DateCells}
        \cup OtherRows

DriverRows ==
    {<<Text(<<" ","A","c"," ">>), Text(<<"A","C","M">>),
       Text(<<"0","1","/","1","5","/","2","0","1","6">>)>>,
     <<Text(<<"B">>), Text(<<"B","E","T">>),
       Text(<<"6","/","1","/","2","0","2","0">>)>>,
     <<Text(<<"B">>), Text(<<"A","B">>),
       Text(<<"0","1","/","1","5","/","2","0","1","6">>)>>,
     <<None, None>>}

Names ==
    {<<"A","c">>, <<"B">>, <<"\"">>}

Ids ==
    {<<"A","C","M">>, <<"B","E","T">>, <<"A","\"","B">>, <<"\\","n","A">>}

Dates ==
    {[year |-> 2016, month |-> 1, day |-> 15],
     [year |-> 2020, month |-> 6, day |-> 1]}

Vendors ==
    [name : Names, pnp_id : Ids, approval_date : Dates]

NewGenerator(rs, ok) ==
    [rows |-> rs, readable |-> ok, gstate |-> "created", gpos |-> 0,
     yielded |-> <<>>, gexc |-> NoExc]

\* The spreadsheets a run can be given: unreadable, or a table.
Spreadsheets(R, n) ==
    {NewGenerator(<<>>, FALSE)}
        \cup {NewGenerator(rs, TRUE) : rs \in SeqsUpTo(R, n)}

IdleGenerator ==
    /\ kind = "list"
    /\ vlist = <<>>
    /\ outs = <<>>

IdleDriver ==
    /\ pc = "idle"
    /\ run = 0
    /\ argOK = TRUE
    /\ file = <<>>
    /\ prior = <<>>
    /\ handle = "none"
    /\ opens = 0
    /\ writes = 0
    /\ output = <<>>
    /\ exc = NoExc
    /\ status = -1
    /\ afterFail = 0

----------------------------------------------------------------------------
(* Iterating parse_spreadsheet, one next() at a time *)

ParseInit ==
    /\ \E g \in Spreadsheets(Rows, MaxRows) :
           /\ rows = g.rows
           /\ readable = g.readable
           /\ gstate = g.gstate
           /\ gpos = g.gpos
           /\ yielded = g.yielded
           /\ gexc = g.gexc
    /\ IdleGenerator
    /\ IdleDriver

\* next(vendors)
Iterate ==
    /\ pc = "idle"
    /\ outs = <<>>
    /\ gstate # "done"
    /\ SetGenerator(Resume(Generator))
    /\ UNCHANGED <<generatorVars, driverVars>>

ParseNext ==
    Iterate

ParseSpec ==
    ParseInit /\ [][ParseNext]_vars

----------------------------------------------------------------------------
(* Properties of parse_spreadsheet *)

IsPrefix(s, t) ==
    Len(s) <= Len(t) /\ s = SubSeq(t, 1, Len(s))

\* s without its leading and trailing whitespace.
Trimmed(s) ==
    LET keep == {i \in 1..Len(s) : s[i] \notin Whitespace}
    IN  IF keep = {} THEN <<>>
        ELSE SubSeq(s, CHOOSE i \in keep : \A j \in keep : i <= j,
                       CHOOSE i \in keep : \A j \in keep : i >= j)

TwoDigits(s, i) ==
    10 * DigitVal(s[i]) + DigitVal(s[i + 1])

\* s is MM/DD/YYYY: two-digit month, two-digit day, four-digit year, and
\* the day exists.
IsMMDDYYYY(s) ==
    /\ Len(s) = 10
    /\ s[3] = "/" /\ s[6] = "/"
    /\ \A i \in {1, 2, 4, 5, 7, 8, 9, 10} : s[i] \in Digits
    /\ TwoDigits(s, 1) \in 1..12
    /\ 100 * TwoDigits(s, 7) + TwoDigits(s, 9) >= 1
    /\ TwoDigits(s, 4) \in
           1..DaysInMonth(100 * TwoDigits(s, 7) + TwoDigits(s, 9),
                          TwoDigits(s, 1))

DateOfMMDDYYYY(s) ==
    [year |-> 100 * TwoDigits(s, 7) + TwoDigits(s, 9),
     month |-> TwoDigits(s, 1), day |-> TwoDigits(s, 4)]

\* s is M/D/YYYY with one or two digits for month and day (the day also as
\* a space and a digit), four digits for the year, and the day exists.
IsLooseDate(s) ==
    \E a \in {1, 2}, b \in {1, 2} :
        /\ Len(s) = a + b + 6
        /\ s[a + 1] = "/" /\ s[a + b + 2] = "/"
        /\ LET mm == SubSeq(s, 1, a)
               dd == SubSeq(s, a + 2, a + b + 1)
               yy == SubSeq(s, a + b + 3, a + b + 6)
               dn == IF dd[1] = " " THEN Tail(dd) ELSE dd
           IN  /\ AllDigits(mm) /\ AllDigits(dn) /\ dn # <<>> /\ AllDigits(yy)
               /\ int(mm) \in 1..12
               /\ int(yy) >= 1
               /\ int(dn) \in 1..DaysInMonth(int(yy), int(mm))

ValidIdCell(c) ==
    ~c.none /\ Len(Trimmed(c.text)) = 3 /\ IsAscii(Trimmed(c.text))

BadIdCell(c) ==
    ~c.none /\ ~(Len(Trimmed(c.text)) = 3 /\ IsAscii(Trimmed(c.text)))

ValidDateCell(c) ==
    ~c.none /\ IsMMDDYYYY(Trimmed(c.text))

ThreeCellRows(rs) ==
    SelectSeq(rs, LAMBDA r : Len(r) = 3)

ExpectedRecord(r) ==
    [name |-> Trimmed(r[1].text), pnp_id |-> Trimmed(r[2].text),
     approval_date |-> DateOfMMDDYYYY(Trimmed(r[3].text))]

ExpectedRecords(rs) ==
    [i \in 1..Len(ThreeCellRows(rs)) |-> ExpectedRecord(ThreeCellRows(rs)[i])]

ValidTable ==
    /\ readable
    /\ \A i \in 1..Len(rows) :
           Len(rows[i]) = 3 => ValidIdCell(rows[i][2]) /\ ValidDateCell(rows[i][3])

OneRecordPerRow ==
    /\ gexc = NoExc
    /\ IsPrefix(yielded, ExpectedRecords(rows))
    /\ gstate = "done" => yielded = ExpectedRecords(rows)

\* C1 as stated: in a table whose 3-cell rows all have a valid ID and a
\* valid MM/DD/YYYY date, iteration yields exactly one record per 3-cell row,
\* in order, with trimmed fields and the decomposed date, and raises nothing.
C1_AsStated ==
    ValidTable => OneRecordPerRow

\* C1: the same for tables whose 3-cell rows also have a name cell that
\* carries text (elem.text is not None).
C1_OneRecordPerRow ==
    (ValidTable /\ \A i \in 1..Len(rows) : Len(rows[i]) = 3 => ~rows[i][1].none)
        => OneRecordPerRow

C1_Witness ==
    /\ ValidTable
    /\ \A i \in 1..Len(rows) : Len(rows[i]) = 3 => ~rows[i][1].none
    /\ gstate = "done"
    /\ Len(yielded) >= 1
    /\ \E i \in 1..Len(rows) : Len(rows[i]) # 3

\* The generator has stopped at row j by raising, having yielded a record
\* for each 3-cell row before row j and for no other row.
FailedAt(j) ==
    /\ gpos = j
    /\ gstate \in {"raised", "done"}
    /\ gexc # NoExc
    /\ Len(yielded) = Len(ThreeCellRows(SubSeq(rows, 1, j - 1)))

IdFailures ==
    {"UnicodeEncodeError", "ValueError: PNP ID"}

\* C2 as stated: reaching a 3-cell row with a bad ID raises the ID
\* validation failure, whatever text the other cells hold, and no record is
\* yielded for that row or a later one.
C2_AsStated ==
    \A j \in 1..Len(rows) :
        (Len(rows[j]) = 3 /\ BadIdCell(rows[j][2]) /\ gpos >= j
         /\ ~rows[j][1].none /\ ~rows[j][3].none)
            => FailedAt(j) /\ gexc \in IdFailures

\* C2: reaching a 3-cell row with a bad ID raises a failure and no record is
\* yielded for that row or a later one; the failure is the ID validation
\* failure when the name and date cells carry text and the date is accepted,
\* and the failure of the earlier step otherwise.
C2_BadIdFailsFast ==
    \A j \in 1..Len(rows) :
        (Len(rows[j]) = 3 /\ BadIdCell(rows[j][2]) /\ gpos >= j)
            => /\ FailedAt(j)
               /\ IF rows[j][1].none \/ rows[j][3].none
                  THEN gexc = "AttributeError"
                  ELSE IF IsLooseDate(Trimmed(rows[j][3].text))
                  THEN gexc \in IdFailures
                  ELSE gexc = "ValueError: time data"

C2_Witness ==
    /\ Len(rows) = 2
    /\ Len(rows[2]) = 3 /\ BadIdCell(rows[2][2])
    /\ gpos = 2
    /\ gexc \in IdFailures
    /\ Len(yielded) = 1

\* C3 as stated: reaching a 3-cell row whose date is not MM/DD/YYYY raises
\* the date parse failure, and no record is yielded for that row or a later
\* one.
C3_AsStated ==
    \A j \in 1..Len(rows) :
        (Len(rows[j]) = 3 /\ ~rows[j][3].none
         /\ ~IsMMDDYYYY(Trimmed(rows[j][3].text)) /\ gpos >= j
         /\ ~rows[j][1].none /\ ~rows[j][2].none)
            => FailedAt(j) /\ gexc = "ValueError: time data"

\* C3: reaching a 3-cell row whose date is not M/D/YYYY (one or two digits
\* for month and day) raises a failure and no record is yielded for that row
\* or a later one; the failure is the date parse failure when the name and
\* ID cells carry text.
C3_BadDateFails ==
    \A j \in 1..Len(rows) :
        (Len(rows[j]) = 3 /\ ~rows[j][3].none
         /\ ~IsLooseDate(Trimmed(rows[j][3].text)) /\ gpos >= j)
            => /\ FailedAt(j)
               /\ IF rows[j][1].none \/ rows[j][2].none
                  THEN gexc = "AttributeError"
                  ELSE gexc = "ValueError: time data"

C3_Witness ==
    /\ Len(rows) = 2
    /\ Len(rows[2]) = 3 /\ ~rows[2][3].none
    /\ ~IsLooseDate(Trimmed(rows[2][3].text))
    /\ gpos = 2
    /\ gstate = "done"
    /\ gexc = "ValueError: time data"
    /\ Len(yielded) = 1

----------------------------------------------------------------------------
(* Calling generate_vendor_module and iterating it to its end *)

GenInit ==
    /\ outs = <<>>
    /\ \/ /\ kind = "list"
          /\ vlist \in SeqsUpTo(Vendors, MaxVendors)
          /\ rows = <<>> /\ readable = TRUE /\ gstate = "created"
          /\ gpos = 0 /\ yielded = <<>> /\ gexc = NoExc
       \/ /\ kind = "generator"
          /\ vlist = <<>>
          /\ \E g \in Spreadsheets(DriverRows, MaxDriverRows) :
                 /\ rows = g.rows
                 /\ readable = g.readable
                 /\ gstate = g.gstate
                 /\ gpos = g.gpos
                 /\ yielded = g.yielded
                 /\ gexc = g.gexc
    /\ IdleDriver

\* list(generate_vendor_module(vendors)) for a stored list vendors
GenerateFromList ==
    /\ pc = "idle"
    /\ kind = "list"
    /\ Len(outs) < MaxCalls
    /\ outs' = Append(outs, [lines |-> generate_vendor_module(vlist),
                             exc |-> NoExc])
    /\ UNCHANGED <<kind, vlist, parserVars, driverVars>>

\* list(generate_vendor_module(vendors)) for vendors = parse_spreadsheet(...)
GenerateFromParser ==
    /\ pc = "idle"
    /\ kind = "generator"
    /\ Len(outs) < MaxCalls
    /\ \E r \in {GenerateFrom(Generator)} :
           /\ outs' = Append(outs, [lines |-> r.lines, exc |-> r.exc])
           /\ SetGenerator(r.g)
    /\ UNCHANGED <<kind, vlist, driverVars>>

GenNext ==
    \/ GenerateFromList
    \/ GenerateFromParser

GenSpec ==
    GenInit /\ [][GenNext]_vars

----------------------------------------------------------------------------
(* Properties of generate_vendor_module *)

\* The entry line of a vendor, piece by piece.
Rendered(v) ==
    <<" "," "," "," ","\"">> \o v.pnp_id \o <<"\"",":"," ">>
        \o <<"p","n","p",".","V","e","n","d","o","r","(","\"">> \o v.name
        \o <<"\"",","," ","\"">> \o v.pnp_id \o <<"\"",","," ">>
        \o <<"d","a","t","e","t","i","m","e",".","d","a","t","e","(">>
        \o str(v.approval_date.year) \o <<","," ">>
        \o str(v.approval_date.month) \o <<","," ">>
        \o str(v.approval_date.day) \o <<")",")",",">>

\* C4: for a vendor list of length n the generator yields n + 9 lines: the
\* 6 preamble lines ending with the opening marker, the n entry lines, the
\* i-th rendering the i-th vendor, then the closing marker, the formatter
\* re-enable marker and an empty line.
C4_LinesInInputOrder ==
    \A k \in 1..Len(outs) :
        kind = "list" =>
            LET lines == outs[k].lines
                n == Len(vlist)
            IN  /\ outs[k].exc = NoExc
                /\ Len(lines) = n + 9
                /\ SubSeq(lines, 1, 5) = <<LineAutogen, LinePylint,
                       LineYapfDisable, LineImportDatetime, LineImportPnp>>
                /\ lines[6] = <<"V","E","N","D","O","R","S"," ","="," ","{">>
                /\ \A i \in 1..n : lines[6 + i] = Rendered(vlist[i])
                /\ lines[n + 7] = <<"}">>
                /\ lines[n + 8] = LineYapfEnable
                /\ lines[n + 9] = <<>>

C4_Witness ==
    /\ kind = "list"
    /\ Len(outs) >= 1
    /\ Len(vlist) = 2
    /\ vlist[1].pnp_id = vlist[2].pnp_id

\* C7 as stated: two calls of generate_vendor_module on the same input give
\* the same lines, for a stored list and for the sequence parse_spreadsheet
\* returns.
C7_AsStated ==
    \A i, j \in 1..Len(outs) : outs[i] = outs[j]

\* C7: two calls on the same stored list give the same lines; a second call
\* on the sequence parse_spreadsheet returned finds it exhausted and gives
\* the module with no entry lines.
C7_SecondCall ==
    /\ kind = "list" => \A i, j \in 1..Len(outs) : outs[i] = outs[j]
    /\ kind = "generator" =>
           \A k \in 2..Len(outs) :
               outs[k] = [lines |-> Preamble \o Trailer, exc |-> NoExc]

C7_Witness ==
    /\ kind = "generator"
    /\ Len(outs) >= 2
    /\ outs[1].exc = NoExc
    /\ Len(outs[1].lines) = 11
    /\ Len(outs[2].lines) = 9

----------------------------------------------------------------------------
(* Loading the entry lines back, as the consumer of vendors.py does *)

Failed == [ok |-> FALSE, val |-> <<>>, next |-> 0]

\* The body of a double-quoted literal from position i on, up to its
\* closing quote; acc is the value read so far.
RECURSIVE ScanString(_, _, _)
ScanString(s, i, acc) ==
    IF i > Len(s) \/ s[i] = "\n" THEN Failed
    ELSE IF s[i] = "\"" THEN [ok |-> TRUE, val |-> acc, next |-> i + 1]
    ELSE IF s[i] = "\\"
    THEN IF i + 1 > Len(s) THEN Failed
         ELSE LET e == s[i + 1]
                  v == CASE e = "\"" -> <<"\"">>
                         [] e = "\\" -> <<"\\">>
                         [] e = "n" -> <<"\n">>
                         [] e = "t" -> <<"\t">>
                         [] OTHER -> <<"\\", e>>
              IN  ScanString(s, i + 2, acc \o v)
    ELSE ScanString(s, i + 1, Append(acc, s[i]))

\* A string literal starting at position i.
ReadString(s, i) ==
    IF i = 0 \/ i > Len(s) \/ s[i] # "\"" THEN Failed
    ELSE ScanString(s, i + 1, <<>>)

\* The fixed text lit at position i.
ReadText(s, i, lit) ==
    IF i # 0 /\ i + Len(lit) - 1 <= Len(s)
       /\ SubSeq(s, i, i + Len(lit) - 1) = lit
    THEN [ok |-> TRUE, val |-> lit, next |-> i + Len(lit)]
    ELSE Failed

\* A decimal integer literal at position i; its value is in val.
ReadInt(s, i) ==
    IF i = 0 \/ i > Len(s) \/ s[i] \notin Digits THEN Failed
    ELSE LET end == CHOOSE j \in i..Len(s) :
                        /\ \A k \in i..j : s[k] \in Digits
                        /\ j = Len(s) \/ s[j + 1] \notin Digits
             d == SubSeq(s, i, end)
         IN  IF Len(d) > 1 /\ d[1] = "0" /\ int(d) # 0 THEN Failed
             ELSE [ok |-> TRUE, val |-> int(d), next |-> end + 1]

NotLoaded == [ok |-> FALSE, key |-> <<>>, value |-> NoVendor]

\* The key and the value of one entry line:
\*     "KEY": pnp.Vendor("NAME", "ID", datetime.date(Y, M, D)),
LoadEntry(line) ==
    LET t1 == ReadText(line, 1, <<" "," "," "," ">>)
        key == ReadString(line, t1.next)
        t2 == ReadText(line, key.next,
                  <<":"," ","p","n","p",".","V","e","n","d","o","r","(">>)
        name == ReadString(line, t2.next)
        t3 == ReadText(line, name.next, <<","," ">>)
        id == ReadString(line, t3.next)
        t4 == ReadText(line, id.next,
                  <<","," ","d","a","t","e","t","i","m","e",".","d","a","t",
                    "e","(">>)
        y == ReadInt(line, t4.next)
        t5 == ReadText(line, y.next, <<","," ">>)
        m == ReadInt(line, t5.next)
        t6 == ReadText(line, m.next, <<","," ">>)
        d == ReadInt(line, t6.next)
        t7 == ReadText(line, d.next, <<")",")",",">>)
    IN  IF t1.ok /\ key.ok /\ t2.ok /\ name.ok /\ t3.ok /\ id.ok /\ t4.ok
           /\ y.ok /\ t5.ok /\ m.ok /\ t6.ok /\ d.ok /\ t7.ok
           /\ t7.next = Len(line) + 1
        THEN [ok |-> TRUE, key |-> key.val,
              value |-> [name |-> name.val, pnp_id |-> id.val,
                         approval_date |-> [year |-> y.val, month |-> m.val,
                                            day |-> d.val]]]
        ELSE NotLoaded

EmptyMapping == [k \in {} |-> NoVendor]

\* The mapping after the entry lines are loaded in order; a later entry
\* replaces an earlier one with the same key.
RECURSIVE LoadEntries(_)
LoadEntries(lines) ==
    IF lines = <<>> THEN [ok |-> TRUE, map |-> EmptyMapping]
    ELSE LET before == LoadEntries(SubSeq(lines, 1, Len(lines) - 1))
             e == LoadEntry(lines[Len(lines)])
         IN  IF before.ok /\ e.ok
             THEN [ok |-> TRUE,
                   map |-> [k \in DOMAIN before.map \cup {e.key} |->
                               IF k = e.key THEN e.value ELSE before.map[k]]]
             ELSE [ok |-> FALSE, map |-> EmptyMapping]

\* s can stand between double quotes as it is.
Safe(s) ==
    \A i \in 1..Len(s) : s[i] \notin {"\"", "\\", "\n"}

\* The input record with the given ID that comes last.
LastWith(vs, id) ==
    vs[CHOOSE i \in 1..Len(vs) :
           /\ vs[i].pnp_id = id
           /\ \A j \in (i + 1)..Len(vs) : vs[j].pnp_id # id]

RoundTrip(vs, lines) ==
    LET m == LoadEntries(SubSeq(lines, 7, Len(lines) - 3))
    IN  /\ m.ok
        /\ DOMAIN m.map = {vs[i].pnp_id : i \in 1..Len(vs)}
        /\ \A id \in DOMAIN m.map : m.map[id] = LastWith(vs, id)

\* C8 as stated: when the names are safe for literal embedding, loading the
\* generated entry lines gives a mapping whose keys are the input IDs, each
\* mapped to the last input record with that ID.
C8_AsStated ==
    \A k \in 1..Len(outs) :
        (kind = "list" /\ \A i \in 1..Len(vlist) : Safe(vlist[i].name))
            => RoundTrip(vlist, outs[k].lines)

\* C8: when the names and the IDs are safe for literal embedding (no double
\* quote, backslash or newline), loading the generated entry lines gives a
\* mapping whose keys are the input IDs, each mapped to the name, ID and
\* date of the last input record with that ID.
C8_RoundTrip ==
    \A k \in 1..Len(outs) :
        (/\ kind = "list"
         /\ \A i \in 1..Len(vlist) : Safe(vlist[i].name)
         /\ \A i \in 1..Len(vlist) : Safe(vlist[i].pnp_id))
            => RoundTrip(vlist, outs[k].lines)

C8_Witness ==
    /\ kind = "list"
    /\ Len(outs) >= 1
    /\ Len(vlist) = 2
    /\ \A i \in 1..2 : Safe(vlist[i].name) /\ Safe(vlist[i].pnp_id)
    /\ vlist[1].pnp_id = vlist[2].pnp_id
    /\ vlist[1].name # vlist[2].name
    /\ LoadEntries(SubSeq(outs[1].lines, 7, 8)).map[vlist[1].pnp_id]
           = vlist[2]

----------------------------------------------------------------------------
(* main *)

OldContents ==
    {<<>>, <<"o","l","d","\n">>}

\* What a failed write or flush can leave in the file of the text out:
\* nothing of it, or a part of it.
PartialWrites(out) ==
    {SubSeq(out, 1, k) : k \in {0, Len(out) \div 2}}

DriverInit ==
    /\ IdleGenerator
    /\ pc = "start"
    /\ run = 1
    /\ argOK \in BOOLEAN
    /\ \E g \in Spreadsheets(DriverRows, MaxDriverRows) :
           /\ rows = g.rows
           /\ readable = g.readable
    /\ gstate = "none"
    /\ gpos = 0
    /\ yielded = <<>>
    /\ gexc = NoExc
    /\ file \in OldContents
    /\ prior = file
    /\ handle = "none"
    /\ opens = 0
    /\ writes = 0
    /\ output = <<>>
    /\ exc = NoExc
    /\ status = -1
    /\ afterFail = 0

\* One more statement of main is executed.
Executed ==
    afterFail' = IF exc # NoExc THEN afterFail + 1 ELSE afterFail

\* cli_args = parse_cli_args()
ParseCliArgs ==
    /\ pc = "start"
    /\ Executed
    /\ IF argOK
       THEN pc' = "parse_spreadsheet" /\ exc' = exc
       ELSE pc' = "raise" /\ exc' = "SystemExit"
    /\ UNCHANGED <<parserVars, generatorVars, run, argOK, file, prior,
                   handle, opens, writes, output, status>>

\* parse_spreadsheet called when it builds its result before returning.
CallParseSpreadsheet_Eager ==
    /\ pc = "parse_spreadsheet"
    /\ Executed
    /\ \E g \in {Exhaust([Generator EXCEPT !.gstate = "created"])} :
           /\ SetGenerator(g)
           /\ IF g.gstate = "raised"
              THEN pc' = "raise" /\ exc' = g.gexc
              ELSE pc' = "open" /\ exc' = exc
    /\ UNCHANGED <<generatorVars, run, argOK, file, prior, handle, opens,
                   writes, output, status>>

\* vendors = parse_spreadsheet(cli_args.spreadsheet): the generator is
\* created, none of its body runs.
CallParseSpreadsheet ==
    /\ pc = "parse_spreadsheet"
    /\ Executed
    /\ gstate' = "created"
    /\ pc' = "open"
    /\ UNCHANGED <<rows, readable, gpos, yielded, gexc, generatorVars, run,
                   argOK, file, prior, handle, opens, writes, output, exc,
                   status>>

\* open(output_path, 'a')
OpenOutput_Append ==
    /\ pc = "open"
    /\ Executed
    /\ handle' = "open"
    /\ opens' = opens + 1
    /\ pc' = "join"
    /\ UNCHANGED <<parserVars, generatorVars, run, argOK, file, prior,
                   writes, output, exc, status>>

\* open(output_path, 'w'): the file is truncated.
OpenOutput ==
    /\ pc = "open"
    /\ Executed
    /\ handle' = "open"
    /\ opens' = opens + 1
    /\ file' = <<>>
    /\ pc' = "join"
    /\ UNCHANGED <<parserVars, generatorVars, run, argOK, prior, writes,
                   output, exc, status>>

\* open(output_path, 'w') raises OSError.
OpenOutputFails ==
    /\ pc = "open"
    /\ Executed
    /\ opens' = opens + 1
    /\ exc' = "OSError"
    /\ pc' = "raise"
    /\ UNCHANGED <<parserVars, generatorVars, run, argOK, file, prior,
                   handle, writes, output, status>>

\* The join statement outside a with block: an exception leaves main.
JoinLines_NoWith ==
    /\ pc = "join"
    /\ Executed
    /\ \E r \in {GenerateFrom(Generator)} :
           /\ SetGenerator(r.g)
           /\ IF r.exc # NoExc
              THEN exc' = r.exc /\ output' = output /\ pc' = "raise"
              ELSE exc' = exc /\ output' = join(r.lines) /\ pc' = "write"
    /\ UNCHANGED <<generatorVars, run, argOK, file, prior, handle, opens,
                   writes, status>>

\* The join statement with the exception of the parser caught and ignored.
JoinLines_Swallow ==
    /\ pc = "join"
    /\ Executed
    /\ \E r \in {GenerateFrom(Generator)} :
           /\ SetGenerator(r.g)
           /\ exc' = r.exc
           /\ output' = join(r.lines)
           /\ pc' = "write"
    /\ UNCHANGED <<generatorVars, run, argOK, file, prior, handle, opens,
                   writes, status>>

\* output = '\n'.join(generate_vendor_module(vendors)): the parser runs
\* here, and its exception leaves the with block.
JoinLines ==
    /\ pc = "join"
    /\ Executed
    /\ \E r \in {GenerateFrom(Generator)} :
           /\ SetGenerator(r.g)
           /\ IF r.exc # NoExc
              THEN exc' = r.exc /\ output' = output /\ pc' = "exit_with"
              ELSE exc' = exc /\ output' = join(r.lines) /\ pc' = "write"
    /\ UNCHANGED <<generatorVars, run, argOK, file, prior, handle, opens,
                   writes, status>>

\* wfile.write(output)
WriteOutput ==
    /\ pc = "write"
    /\ Executed
    /\ writes' = writes + 1
    /\ file' = file \o output
    /\ pc' = "exit_with"
    /\ UNCHANGED <<parserVars, generatorVars, run, argOK, prior, handle,
                   opens, output, exc, status>>

\* wfile.write(output) raises OSError.
WriteOutputFails ==
    /\ pc = "write"
    /\ Executed
    /\ writes' = writes + 1
    /\ \E part \in PartialWrites(output) : file' = file \o part
    /\ exc' = "OSError"
    /\ pc' = "exit_with"
    /\ UNCHANGED <<parserVars, generatorVars, run, argOK, prior, handle,
                   opens, output, status>>

\* The end of the with block: wfile is closed, a pending exception goes on.
CloseOutput ==
    /\ pc = "exit_with"
    /\ handle' = "closed"
    /\ pc' = IF exc # NoExc THEN "raise" ELSE "return"
    /\ UNCHANGED <<parserVars, generatorVars, run, argOK, file, prior,
                   opens, writes, output, exc, status, afterFail>>

\* The end of the with block when flushing the written text raises OSError.
CloseOutputFails ==
    /\ pc = "exit_with"
    /\ exc = NoExc
    /\ handle' = "closed"
    /\ \E part \in PartialWrites(output) : file' = part
    /\ exc' = "OSError"
    /\ pc' = "raise"
    /\ UNCHANGED <<parserVars, generatorVars, run, argOK, prior, opens,
                   writes, output, status, afterFail>>

\* main returns: the process exits with status 0.
Return ==
    /\ pc = "return"
    /\ status' = 0
    /\ pc' = "exited"
    /\ UNCHANGED <<parserVars, generatorVars, run, argOK, file, prior,
                   handle, opens, writes, output, exc, afterFail>>

\* An exception leaves main uncaught: traceback and status 1; argparse
\* exits with status 2.
Uncaught ==
    /\ pc = "raise"
    /\ status' = IF exc = "SystemExit" THEN 2 ELSE 1
    /\ pc' = "exited"
    /\ UNCHANGED <<parserVars, generatorVars, run, argOK, file, prior,
                   handle, opens, writes, output, exc, afterFail>>

\* The script is run again, on any spreadsheet.
NextRun ==
    /\ pc = "exited"
    /\ run < MaxRuns
    /\ run' = run + 1
    /\ pc' = "start"
    /\ argOK' \in BOOLEAN
    /\ \E g \in Spreadsheets(DriverRows, MaxDriverRows) :
           /\ rows' = g.rows
           /\ readable' = g.readable
    /\ gstate' = "none"
    /\ gpos' = 0
    /\ yielded' = <<>>
    /\ gexc' = NoExc
    /\ prior' = file
    /\ handle' = "none"
    /\ opens' = 0
    /\ writes' = 0
    /\ output' = <<>>
    /\ exc' = NoExc
    /\ status' = -1
    /\ afterFail' = 0
    /\ UNCHANGED <<generatorVars, file>>

\* The steps of one run.
RunStep ==
    \/ ParseCliArgs
    \/ CallParseSpreadsheet
    \/ OpenOutput
    \/ OpenOutputFails
    \/ JoinLines
    \/ WriteOutput
    \/ WriteOutputFails
    \/ CloseOutput
    \/ CloseOutputFails
    \/ Return
    \/ Uncaught

DriverNext ==
    \/ RunStep
    \/ NextRun

DriverSpec ==
    DriverInit /\ [][DriverNext]_vars

\* A started run goes on until the process exits.
DriverLiveSpec ==
    DriverInit /\ [][DriverNext]_vars /\ WF_vars(RunStep)

----------------------------------------------------------------------------
(* Properties of main *)

\* C5: every run terminates; the exit status is 0 exactly when no step
\* raised; no statement of main, the write in particular, is executed
\* after a failure.
C5_ExitStatus ==
    /\ [](pc = "exited" => status # -1 /\ (status = 0 <=> exc = NoExc))
    /\ [](afterFail = 0)
    /\ []((exc # NoExc /\ pc \in {"raise", "exit_with", "exited"}
           /\ exc \in {"SystemExit", "ParseError", "AttributeError",
                       "ValueError: time data", "UnicodeEncodeError",
                       "ValueError: PNP ID"})
              => writes = 0)
    /\ (pc # "exited") ~> (pc = "exited")

C5_Witness ==
    /\ pc = "exited"
    /\ run = 2
    /\ status = 1
    /\ exc = "ValueError: PNP ID"
    /\ writes = 0

\* The text of the module generated from a readable table.
ModuleText(rs) ==
    join(generate_vendor_module(Exhaust(NewGenerator(rs, TRUE)).yielded))

\* C6: after a successful run, the first or a later one, the output file
\* holds exactly the generated lines of that run's input joined with
\* newlines, whatever it held before.
C6_Overwritten ==
    (pc = "exited" /\ status = 0) => file = ModuleText(rows)

C6_Witness ==
    /\ pc = "exited"
    /\ status = 0
    /\ run = 2
    /\ prior # <<>>
    /\ prior # file
    /\ Len(yielded) >= 1

\* C9: in a run the output file is opened at most once and written by at
\* most one write call, issued while the handle is open, and the handle is
\* not open once main has terminated.
C9_HandleReleased ==
    /\ [](opens <= 1 /\ writes <= 1)
    /\ []((pc \in {"return", "raise", "exited"}) => handle # "open")
    /\ [][writes' = writes + 1 => handle = "open" /\ opens = 1]_vars

C9_Witness ==
    /\ pc = "exited"
    /\ handle = "closed"
    /\ opens = 1
    /\ writes = 0
    /\ exc = "ValueError: PNP ID"

\* C10: the output file is opened and truncated before the input file is
\* read or a row is parsed, the text is written by one write after the whole
\* of it is joined, and after a run that fails in the parser the output file
\* is empty.
C10_TruncatedBeforeParsing ==
    /\ gstate \notin {"none", "created"} => opens = 1 /\ handle # "none"
    /\ (pc = "join" /\ gstate = "created") => file = <<>>
    /\ writes = 1 => gstate = "done" /\ output = ModuleText(rows)
    /\ (pc = "exited" /\ gexc # NoExc) => file = <<>> /\ writes = 0

C10_Witness ==
    /\ pc = "exited"
    /\ gexc # NoExc
    /\ prior # <<>>
    /\ Len(yielded) >= 1
    /\ file = <<>>

====
